---- MODULE Spec2Model ----
(***************************************************************************)
(* Candidate-validation subsystem of a relay-chain node                    *)
(* (node/core/candidate-validation/src/lib.rs).                            *)
(*                                                                         *)
(* The subsystem loop `run` receives overseer signals and validation       *)
(* requests, resolves the inputs of a ValidateFromChainState request       *)
(* through the runtime API, runs validate_candidate_exhaustive (basic      *)
(* checks, bounded decompression, execution on the validation host) and    *)
(* sends the result on the requester's one-shot channel.                   *)
(*                                                                         *)
(* One action of the model is one stretch of the loop task between two     *)
(* suspension points (ctx.recv(), a runtime-API answer, the host answer).  *)
(***************************************************************************)
EXTENDS Integers, Sequences, FiniteSets, TLC

----------------------------------------------------------------------------
(* Bounds of the model *)

\* messages that may wait in the subsystem's inbound channel
MaxInbox == 1
\* number of distinct hash values (hashes are compared, never inverted)
HashSpace == 2

(* Program constants, scaled down from mebibytes to single bytes *)
VALIDATION_CODE_BOMB_LIMIT == 2
POV_BOMB_LIMIT == 3

----------------------------------------------------------------------------
(* Option<T>: None is the empty sequence, Some(x) the one-element sequence *)
None == <<>>
Some(x) == <<x>>

(* Result of perform_basic_checks and of decompress *)
Ok(v) == [ok |-> TRUE, val |-> <<v>>]
Err(e) == [ok |-> FALSE, val |-> <<e>>]

----------------------------------------------------------------------------
(* Byte blobs.  A blob is described by whether it starts with the zstd     *)
(* magic prefix, by its length as supplied (wire) and by the length its    *)
(* content has once decoded (payload; for a blob without prefix the blob   *)
(* itself).                                                                *)
Raw(n) == [magic |-> FALSE, wire |-> n, payload |-> n]
Zstd(n) == [magic |-> TRUE, wire |-> 1, payload |-> n]

ValidationCodes ==
    { Raw(1), Raw(VALIDATION_CODE_BOMB_LIMIT + 1),
      Zstd(VALIDATION_CODE_BOMB_LIMIT), Zstd(VALIDATION_CODE_BOMB_LIMIT + 1) }

BlockDatas ==
    { Raw(1), Raw(POV_BOMB_LIMIT + 1),
      Zstd(POV_BOMB_LIMIT), Zstd(POV_BOMB_LIMIT + 1) }

PoVs == [block_data : BlockDatas]

PersistedValidationDatas ==
    [parent_head : {0}, relay_parent_number : {0},
     relay_parent_storage_root : {0}, max_pov_size : {2, 5}]

Hashes == 0 .. (HashSpace - 1)

CandidateDescriptors ==
    [relay_parent : {1, 2}, para_id : {5},
     persisted_validation_data_hash : Hashes, pov_hash : Hashes,
     validation_code_hash : Hashes, para_head : Hashes,
     signature : {"verifies", "forged"}]

Msgs == {"m1", "m2"}

WasmValidationResults ==
    [head_data : {0, 1}, upward_messages : {<<>>},
     horizontal_messages : {<<>>}, new_validation_code : {None, Some(1)},
     processed_downward_messages : {0}, hrmp_watermark : {0}]

(* ValidationError as returned by the validation host on the result channel *)
ValidationErrors ==
    { [e |-> "InternalError", msg |-> m] : m \in Msgs } \cup
    { [e |-> "HardTimeout", msg |-> ""] } \cup
    { [e |-> "WorkerReportedError", msg |-> m] : m \in Msgs } \cup
    { [e |-> "AmbigiousWorkerDeath", msg |-> ""] }

----------------------------------------------------------------------------
(* Hashing: the encoded value reduced to the hash space *)
blake2_256(n) == n % HashSpace

EncodeBlob(b) == (IF b.magic THEN 1 ELSE 0) + 2 * b.payload + b.wire

HashPoV(pov) == blake2_256(EncodeBlob(pov.block_data))
HashCode(code) == blake2_256(EncodeBlob(code))
HashData(d) ==
    blake2_256(d.parent_head + d.relay_parent_number
               + d.relay_parent_storage_root + d.max_pov_size)
HashHead(h) == blake2_256(h + 1)

(* SCALE: a byte vector is encoded as its compact length followed by the bytes *)
compact_len(n) == IF n < 64 THEN 1 ELSE IF n < 16384 THEN 2 ELSE 4
encoded_size(pov) == compact_len(pov.block_data.wire) + pov.block_data.wire

check_collator_signature(candidate) == candidate.signature = "verifies"

----------------------------------------------------------------------------
(* InvalidCandidate reasons and the results sent to the requester *)
Reason(r) == [r |-> r, n |-> 0, msg |-> ""]
ParamsTooLarge(n) == [r |-> "ParamsTooLarge", n |-> n, msg |-> ""]
ExecutionError(m) == [r |-> "ExecutionError", n |-> 0, msg |-> m]

NoOutputs == None
NoData == None

Valid(outputs, data) ==
    [tag |-> "Valid", reason |-> Reason(""), outputs |-> Some(outputs),
     data |-> Some(data), msg |-> ""]
Invalid(reason) ==
    [tag |-> "Invalid", reason |-> reason, outputs |-> NoOutputs,
     data |-> NoData, msg |-> ""]
ValidationFailed(m) ==
    [tag |-> "ValidationFailed", reason |-> Reason(""), outputs |-> NoOutputs,
     data |-> NoData, msg |-> m]

(* perform_basic_checks hashing what the blobs decode to: a blob with the   *)
(* magic prefix is replaced by its content before it is hashed              *)
perform_basic_checks_hashes_decoded(candidate, max_pov_size, pov, validation_code) ==
    LET decoded(b) == IF b.magic THEN [magic |-> FALSE, wire |-> b.payload, payload |-> b.payload] ELSE b
        pov_hash == HashPoV([block_data |-> decoded(pov.block_data)])
        validation_code_hash == HashCode(decoded(validation_code))
        encoded_pov_size == encoded_size(pov)
    IN  IF encoded_pov_size > max_pov_size
          THEN Err(ParamsTooLarge(encoded_pov_size))
        ELSE IF pov_hash # candidate.pov_hash
          THEN Err(Reason("PoVHashMismatch"))
        ELSE IF validation_code_hash # candidate.validation_code_hash
          THEN Err(Reason("CodeHashMismatch"))
        ELSE IF ~check_collator_signature(candidate)
          THEN Err(Reason("BadSignature"))
        ELSE Ok("unit")

(* perform_basic_checks with the two hash checks in the other order *)
perform_basic_checks_code_first(candidate, max_pov_size, pov, validation_code) ==
    LET pov_hash == HashPoV(pov)
        validation_code_hash == HashCode(validation_code)
        encoded_pov_size == encoded_size(pov)
    IN  IF encoded_pov_size > max_pov_size
          THEN Err(ParamsTooLarge(encoded_pov_size))
        ELSE IF validation_code_hash # candidate.validation_code_hash
          THEN Err(Reason("CodeHashMismatch"))
        ELSE IF pov_hash # candidate.pov_hash
          THEN Err(Reason("PoVHashMismatch"))
        ELSE IF ~check_collator_signature(candidate)
          THEN Err(Reason("BadSignature"))
        ELSE Ok("unit")

(* perform_basic_checks: the first failing check decides *)
perform_basic_checks(candidate, max_pov_size, pov, validation_code) ==
    LET pov_hash == HashPoV(pov)
        validation_code_hash == HashCode(validation_code)
        encoded_pov_size == encoded_size(pov)
    IN  IF encoded_pov_size > max_pov_size
          THEN Err(ParamsTooLarge(encoded_pov_size))
        ELSE IF pov_hash # candidate.pov_hash
          THEN Err(Reason("PoVHashMismatch"))
        ELSE IF validation_code_hash # candidate.validation_code_hash
          THEN Err(Reason("CodeHashMismatch"))
        ELSE IF ~check_collator_signature(candidate)
          THEN Err(Reason("BadSignature"))
        ELSE Ok("unit")

(* decompress with the bomb limit off by one *)
decompress_off_by_one(blob, bomb_limit) ==
    IF blob.magic
      THEN IF blob.payload > bomb_limit + 1
             THEN Err("decompression")
             ELSE Ok(Raw(blob.payload))
      ELSE Ok(blob)

(* sp_maybe_compressed_blob::decompress: a blob with the magic prefix is    *)
(* decoded under the bomb limit, any other blob is returned as it is.       *)
decompress(blob, bomb_limit) ==
    IF blob.magic
      THEN IF blob.payload > bomb_limit
             THEN Err("decompression")
             ELSE Ok(Raw(blob.payload))
      ELSE Ok(blob)

ValidationParams(persisted_validation_data, raw_block_data) ==
    [parent_head |-> persisted_validation_data.parent_head,
     block_data |-> raw_block_data,
     relay_parent_number |-> persisted_validation_data.relay_parent_number,
     relay_parent_storage_root |->
         persisted_validation_data.relay_parent_storage_root]

(* validate_candidate_exhaustive up to the call of the backend: either an   *)
(* early result, or the arguments of validation_backend.validate_candidate  *)
Returned(result) == [returned |-> TRUE, result |-> <<result>>, call |-> <<>>]
Calls(raw_code, params) ==
    [returned |-> FALSE, result |-> <<>>,
     call |-> <<[raw_validation_code |-> raw_code, params |-> params]>>]

(* the same without the early return on failed basic checks *)
exhaustive_before_execution_unchecked(persisted_validation_data, validation_code, descriptor, pov) ==
    LET raw_validation_code ==
            decompress(validation_code, VALIDATION_CODE_BOMB_LIMIT)
        raw_block_data == decompress(pov.block_data, POV_BOMB_LIMIT)
    IN  IF ~raw_validation_code.ok
          THEN Returned(Invalid(Reason("CodeDecompressionFailure")))
        ELSE IF ~raw_block_data.ok
          THEN Returned(Invalid(Reason("PoVDecompressionFailure")))
        ELSE Calls(raw_validation_code.val[1],
                   ValidationParams(persisted_validation_data,
                                    raw_block_data.val[1]))

(* the same with the decompressions done before the basic checks *)
exhaustive_before_execution_decompress_first(persisted_validation_data, validation_code, descriptor, pov) ==
    LET basic == perform_basic_checks(descriptor,
                     persisted_validation_data.max_pov_size, pov,
                     validation_code)
        raw_validation_code ==
            decompress(validation_code, VALIDATION_CODE_BOMB_LIMIT)
        raw_block_data == decompress(pov.block_data, POV_BOMB_LIMIT)
    IN  IF ~raw_validation_code.ok
          THEN Returned(Invalid(Reason("CodeDecompressionFailure")))
        ELSE IF ~raw_block_data.ok
          THEN Returned(Invalid(Reason("PoVDecompressionFailure")))
        ELSE IF ~basic.ok THEN Returned(Invalid(basic.val[1]))
        ELSE Calls(raw_validation_code.val[1],
                   ValidationParams(persisted_validation_data,
                                    raw_block_data.val[1]))

(* the same with the two bomb limits exchanged *)
exhaustive_before_execution_limits_swapped(persisted_validation_data, validation_code, descriptor, pov) ==
    LET basic == perform_basic_checks(descriptor,
                     persisted_validation_data.max_pov_size, pov,
                     validation_code)
        raw_validation_code == decompress(validation_code, POV_BOMB_LIMIT)
        raw_block_data ==
            decompress(pov.block_data, VALIDATION_CODE_BOMB_LIMIT)
    IN  IF ~basic.ok THEN Returned(Invalid(basic.val[1]))
        ELSE IF ~raw_validation_code.ok
          THEN Returned(Invalid(Reason("CodeDecompressionFailure")))
        ELSE IF ~raw_block_data.ok
          THEN Returned(Invalid(Reason("PoVDecompressionFailure")))
        ELSE Calls(raw_validation_code.val[1],
                   ValidationParams(persisted_validation_data,
                                    raw_block_data.val[1]))

exhaustive_before_execution(persisted_validation_data, validation_code, descriptor, pov) ==
    LET basic == perform_basic_checks(descriptor,
                     persisted_validation_data.max_pov_size, pov,
                     validation_code)
        raw_validation_code ==
            decompress(validation_code, VALIDATION_CODE_BOMB_LIMIT)
        raw_block_data == decompress(pov.block_data, POV_BOMB_LIMIT)
    IN  IF ~basic.ok THEN Returned(Invalid(basic.val[1]))
        ELSE IF ~raw_validation_code.ok
          THEN Returned(Invalid(Reason("CodeDecompressionFailure")))
        ELSE IF ~raw_block_data.ok
          THEN Returned(Invalid(Reason("PoVDecompressionFailure")))
        ELSE Calls(raw_validation_code.val[1],
                   ValidationParams(persisted_validation_data,
                                    raw_block_data.val[1]))

(* the commitments without the new validation code *)
CandidateCommitments_no_new_code(res) ==
    [head_data |-> res.head_data,
     upward_messages |-> res.upward_messages,
     horizontal_messages |-> res.horizontal_messages,
     new_validation_code |-> None,
     processed_downward_messages |-> res.processed_downward_messages,
     hrmp_watermark |-> res.hrmp_watermark]

CandidateCommitments(res) ==
    [head_data |-> res.head_data,
     upward_messages |-> res.upward_messages,
     horizontal_messages |-> res.horizontal_messages,
     new_validation_code |-> res.new_validation_code,
     processed_downward_messages |-> res.processed_downward_messages,
     hrmp_watermark |-> res.hrmp_watermark]

(* the same with an internal error of the host held against the candidate *)
exhaustive_after_execution_internal_invalid(result, descriptor, persisted_validation_data) ==
    IF ~result.ok
      THEN LET e == result.val[1]
           IN  IF e.e = "HardTimeout" THEN Invalid(Reason("Timeout"))
               ELSE IF e.e = "AmbigiousWorkerDeath"
                 THEN Invalid(ExecutionError("ambigious worker death"))
               ELSE Invalid(ExecutionError(e.msg))
      ELSE LET res == result.val[1]
           IN  IF HashHead(res.head_data) # descriptor.para_head
                 THEN Invalid(Reason("ParaHeadHashMismatch"))
                 ELSE Valid(CandidateCommitments(res),
                            persisted_validation_data)

(* the same with a hard timeout reported as a failure of the node *)
exhaustive_after_execution_timeout_internal(result, descriptor, persisted_validation_data) ==
    IF ~result.ok
      THEN LET e == result.val[1]
           IN  IF e.e = "InternalError" THEN ValidationFailed(e.msg)
               ELSE IF e.e = "HardTimeout" THEN ValidationFailed("timeout")
               ELSE IF e.e = "WorkerReportedError"
                 THEN Invalid(ExecutionError(e.msg))
               ELSE Invalid(ExecutionError("ambigious worker death"))
      ELSE LET res == result.val[1]
           IN  IF HashHead(res.head_data) # descriptor.para_head
                 THEN Invalid(Reason("ParaHeadHashMismatch"))
                 ELSE Valid(CandidateCommitments(res),
                            persisted_validation_data)

(* validate_candidate_exhaustive after the backend answered *)
exhaustive_after_execution(result, descriptor, persisted_validation_data) ==
    IF ~result.ok
      THEN LET e == result.val[1]
           IN  IF e.e = "InternalError" THEN ValidationFailed(e.msg)
               ELSE IF e.e = "HardTimeout" THEN Invalid(Reason("Timeout"))
               ELSE IF e.e = "WorkerReportedError"
                 THEN Invalid(ExecutionError(e.msg))
               ELSE Invalid(ExecutionError("ambigious worker death"))
      ELSE LET res == result.val[1]
           IN  IF HashHead(res.head_data) # descriptor.para_head
                 THEN Invalid(Reason("ParaHeadHashMismatch"))
                 ELSE Valid(CandidateCommitments(res),
                            persisted_validation_data)

(* ValidationBackend for &mut ValidationHost: what validate_candidate       *)
(* returns when the pvf cannot be sent, and when the result sender is       *)
(* dropped                                                                  *)
CannotSend == Err([e |-> "InternalError",
                   msg |-> "cannot send pvf to the validation host"])
Cancelled == Err([e |-> "InternalError", msg |-> "validation was cancelled"])

----------------------------------------------------------------------------
(* Messages *)
Signals == {"ActiveLeaves", "BlockFinalized", "Conclude"}
Requests == {"ValidateFromChainState", "ValidateFromExhaustive"}

(* the two assumptions in the other order *)
ASSUMPTIONS_timed_out_first == <<"TimedOut", "Included">>

(* only the first assumption is probed *)
ASSUMPTIONS_included_only == <<"Included">>

ASSUMPTIONS == <<"Included", "TimedOut">>

(* RuntimeApiMessage::Request(relay_parent, request) *)
PersistedValidationDataRequest(descriptor, a) ==
    [relay_parent |-> descriptor.relay_parent,
     request |-> "PersistedValidationData", para_id |-> descriptor.para_id,
     assumption |-> a, outputs |-> None]
(* the code is asked under the first assumption whatever matched *)
ValidationCodeRequest_included(descriptor, a) ==
    [relay_parent |-> descriptor.relay_parent, request |-> "ValidationCode",
     para_id |-> descriptor.para_id, assumption |-> "Included", outputs |-> None]

ValidationCodeRequest(descriptor, a) ==
    [relay_parent |-> descriptor.relay_parent,
     request |-> "ValidationCode", para_id |-> descriptor.para_id,
     assumption |-> a, outputs |-> None]
CheckValidationOutputsRequest(descriptor, outputs) ==
    [relay_parent |-> descriptor.relay_parent,
     request |-> "CheckValidationOutputs", para_id |-> descriptor.para_id,
     assumption |-> "", outputs |-> Some(outputs)]

(* What comes back on the one-shot channel of a runtime-API request: the    *)
(* sender dropped (Canceled), Err(RuntimeApiError) or Ok(value)             *)
Canceled == [r |-> "Canceled", val |-> None]
ApiErr == [r |-> "Err", val |-> None]
ApiOk(v) == [r |-> "Ok", val |-> v]
OptionAnswers(S) ==
    {Canceled, ApiErr, ApiOk(None)} \cup { ApiOk(Some(x)) : x \in S }
BoolAnswers == {Canceled, ApiErr, ApiOk(Some(TRUE)), ApiOk(Some(FALSE))}

(* What the validation host does with a submitted execution *)
HostAnswers ==
    {Cancelled} \cup { Err(e) : e \in ValidationErrors }
    \cup { Ok(res) : res \in WasmValidationResults }

----------------------------------------------------------------------------
VARIABLES
    inbox,              \* kinds of the messages waiting in the inbound channel
    status,             \* the loop: "Running", "Concluded" (Ok), "Failed" (Err)
    pc,                 \* where the loop task is suspended
    req,                \* Option: the validation request being served (or the last one)
    assumption,         \* find_assumed_validation_data: index into ASSUMPTIONS
    validation_data,    \* Option: persisted validation data used for the request
    validation_code,    \* Option: validation code used for the request
    sent,               \* runtime-API messages sent for the request, in order
    answers,            \* what receiver.await gave for each of them, in order
    calls,              \* arguments of the backend calls made for the request
    host_result,        \* Option: what validate_candidate returned
    validation_result,  \* Option: what validate_candidate_exhaustive returned
    result,             \* Option: the value x about to be handed to response_sender.send
    reply,              \* Option: the kind of result the requester of the last request received
    warned              \* "Requester of candidate validation dropped" was logged

vars == <<inbox, status, pc, req, assumption, validation_data, validation_code, sent, answers, calls, host_result, validation_result, result, reply, warned>>

Init ==
    /\ inbox = <<>>
    /\ status = "Running"
    /\ pc = "recv"
    /\ req = None
    /\ assumption = 0
    /\ validation_data = None
    /\ validation_code = None
    /\ sent = <<>>
    /\ answers = <<>>
    /\ calls = <<>>
    /\ host_result = None
    /\ validation_result = None
    /\ result = None
    /\ reply = None
    /\ warned = FALSE

----------------------------------------------------------------------------
(* The overseer puts a message into the inbound channel *)
Post(m) ==
    /\ Len(inbox) < MaxInbox
    /\ inbox' = Append(inbox, m)
    /\ UNCHANGED <<status, pc, req, assumption, validation_data, validation_code, sent, answers, calls, host_result, validation_result, result, reply, warned>>

Send == \E m \in Signals \cup Requests : Post(m)

(* The task is suspended at the await named p *)
Suspend(p) ==
    /\ pc' = p
    /\ result' = None
    /\ reply' = None
    /\ warned' = FALSE
    /\ status' = status

(* the result is dropped and the loop goes back to ctx.recv() *)
Deliver_lost(x, kind) ==
    /\ result' = None
    /\ reply' = None
    /\ warned' = FALSE
    /\ pc' = "recv"
    /\ status' = status

(* run, arm Ok(x): the task holds the result x and is about to send it *)
Deliver(x, kind) ==
    /\ result' = Some(x)
    /\ reply' = None
    /\ warned' = FALSE
    /\ pc' = "reply"
    /\ status' = status

(* run, arm Err(e): return Err(e) *)
Fail ==
    /\ status' = "Failed"
    /\ pc' = "exit"
    /\ UNCHANGED <<result, reply, warned>>

(* a failed send gives its result without the backend's Err being kept *)
exhaustive_start_send_failure_unrecorded(persisted_validation_data, code, descriptor, pov, send_ok) ==
    LET b == exhaustive_before_execution(persisted_validation_data, code, descriptor, pov)
    IN  IF b.returned
          THEN [calls |-> <<>>, host_result |-> None, validation_result |-> b.result]
        ELSE IF ~send_ok
          THEN [calls |-> b.call, host_result |-> None,
                validation_result |-> Some(exhaustive_after_execution(CannotSend, descriptor, persisted_validation_data))]
        ELSE [calls |-> b.call, host_result |-> None, validation_result |-> None]

(* validate_candidate_exhaustive from its entry to its first suspension or  *)
(* its return; send_ok tells whether execute_pvf could send to the host     *)
exhaustive_start(persisted_validation_data, code, descriptor, pov, send_ok) ==
    LET b == exhaustive_before_execution(persisted_validation_data, code, descriptor, pov)
    IN  IF b.returned
          THEN [calls |-> <<>>, host_result |-> None, validation_result |-> b.result]
        ELSE IF ~send_ok
          THEN [calls |-> b.call, host_result |-> Some(CannotSend),
                validation_result |-> Some(exhaustive_after_execution(CannotSend, descriptor, persisted_validation_data))]
        ELSE [calls |-> b.call, host_result |-> None, validation_result |-> None]

(* CheckValidationOutputs is asked whatever the result is *)
chain_state_after_exhaustive_check_always(vr, descriptor, sent_so_far) ==
    /\ sent' = Append(sent_so_far, [relay_parent |-> descriptor.relay_parent, request |-> "CheckValidationOutputs", para_id |-> descriptor.para_id, assumption |-> "", outputs |-> vr.outputs])
    /\ Suspend("outputs")

(* spawn_validate_from_chain_state once validate_candidate_exhaustive has   *)
(* returned vr: a Valid result is checked with CheckValidationOutputs       *)
chain_state_after_exhaustive(vr, descriptor, sent_so_far) ==
    IF vr.tag = "Valid"
      THEN /\ sent' = Append(sent_so_far, CheckValidationOutputsRequest(descriptor, vr.outputs[1]))
           /\ Suspend("outputs")
      ELSE /\ sent' = sent_so_far
           /\ Deliver(vr, "ValidateFromChainState")

----------------------------------------------------------------------------
(* the inbound channel polled wherever the task is suspended *)
Receiving_while_serving(m) ==
    /\ status = "Running"
    /\ inbox # <<>>
    /\ Head(inbox) = m
    /\ inbox' = Tail(inbox)

(* run: ctx.recv() *)
Receiving(m) ==
    /\ status = "Running"
    /\ pc = "recv"
    /\ inbox # <<>>
    /\ Head(inbox) = m
    /\ inbox' = Tail(inbox)

(* BlockFinalized handled like Conclude *)
RecvSignal_block_finalized_returns ==
    \/ /\ Receiving("ActiveLeaves")
       /\ UNCHANGED <<status, pc, req, assumption, validation_data, validation_code, sent, answers, calls, host_result, validation_result, result, reply, warned>>
    \/ /\ Receiving("BlockFinalized")
       /\ status' = "Concluded"
       /\ pc' = "exit"
       /\ UNCHANGED <<req, assumption, validation_data, validation_code, sent, answers, calls, host_result, validation_result, result, reply, warned>>

(* Signal(ActiveLeaves) and Signal(BlockFinalized): empty arms *)
RecvSignal ==
    /\ \E m \in {"ActiveLeaves", "BlockFinalized"} : Receiving(m)
    /\ UNCHANGED <<status, pc, req, assumption, validation_data, validation_code, sent, answers, calls, host_result, validation_result, result, reply, warned>>

(* Conclude handled like the other two signals *)
RecvConclude_ignored ==
    /\ Receiving("Conclude")
    /\ UNCHANGED <<status, pc, req, assumption, validation_data, validation_code, sent, answers, calls, host_result, validation_result, result, reply, warned>>

(* Signal(Conclude): return Ok(()) *)
RecvConclude ==
    /\ Receiving("Conclude")
    /\ status' = "Concluded"
    /\ pc' = "exit"
    /\ UNCHANGED <<req, assumption, validation_data, validation_code, sent, answers, calls, host_result, validation_result, result, reply, warned>>

(* ctx.recv() returns an error: `?` leaves run with it *)
RecvError ==
    /\ status = "Running"
    /\ pc = "recv"
    /\ Fail
    /\ UNCHANGED <<inbox, req, assumption, validation_data, validation_code, sent, answers, calls, host_result, validation_result>>

(* CandidateValidationMessage::ValidateFromExhaustive *)
ValidateFromExhaustive ==
    /\ Receiving("ValidateFromExhaustive")
    /\ \E data \in PersistedValidationDatas, code \in ValidationCodes, d \in CandidateDescriptors, p \in PoVs, send_ok \in BOOLEAN :
         LET s == exhaustive_start(data, code, d, p, send_ok)
         IN  /\ req' = Some([kind |-> "ValidateFromExhaustive",
                             persisted_validation_data |-> Some(data),
                             validation_code |-> Some(code),
                             descriptor |-> d, pov |-> p])
             /\ validation_data' = Some(data)
             /\ validation_code' = Some(code)
             /\ assumption' = 0
             /\ sent' = <<>>
             /\ answers' = <<>>
             /\ calls' = s.calls
             /\ host_result' = s.host_result
             /\ validation_result' = s.validation_result
             /\ IF s.validation_result = None
                  THEN Suspend("host")
                  ELSE Deliver(s.validation_result[1], "ValidateFromExhaustive")

(* CandidateValidationMessage::ValidateFromChainState: the task starts      *)
(* find_assumed_validation_data and waits for the first answer              *)
ValidateFromChainState ==
    /\ Receiving("ValidateFromChainState")
    /\ \E d \in CandidateDescriptors, p \in PoVs :
         /\ req' = Some([kind |-> "ValidateFromChainState",
                         persisted_validation_data |-> None,
                         validation_code |-> None,
                         descriptor |-> d, pov |-> p])
         /\ assumption' = 1
         /\ sent' = <<PersistedValidationDataRequest(d, ASSUMPTIONS[1])>>
    /\ validation_data' = None
    /\ validation_code' = None
    /\ answers' = <<>>
    /\ calls' = <<>>
    /\ host_result' = None
    /\ validation_result' = None
    /\ Suspend("data")

(* the comparison made with the descriptor's pov_hash *)
hash_matches_pov_hash(descriptor, data) ==
    descriptor.pov_hash = HashData(data)

(* check_assumption_validation_data: does the data answered by the runtime  *)
(* API hash to the descriptor's persisted_validation_data_hash              *)
hash_matches(descriptor, data) ==
    descriptor.persisted_validation_data_hash = HashData(data)

(* check_assumption_validation_data: Ok(None) | Err(_) => BadRequest, for   *)
(* the PersistedValidationData answer and for the ValidationCode answer     *)
bad_request(ans) == ans.r = "Err" \/ ans.val = None

(* absent data taken for a mismatch: the next assumption is probed          *)
data_outcome_none_continues(descriptor, ans) ==
    IF ans.r = "Err" THEN "BadRequest"
    ELSE IF ans.val # None /\ hash_matches(descriptor, ans.val[1]) THEN "Matches"
    ELSE "DoesNotMatch"

(* check_assumption_validation_data up to the hash comparison: what a       *)
(* PersistedValidationData answer means for the assumption probed           *)
data_outcome(descriptor, ans) ==
    IF bad_request(ans) THEN "BadRequest"
    ELSE IF hash_matches(descriptor, ans.val[1]) THEN "Matches"
    ELSE "DoesNotMatch"

(* the two results exchanged *)
no_match_result_swapped(outcome) ==
    IF outcome = "DoesNotMatch"
      THEN ValidationFailed("Assumption Check: Bad request")
      ELSE Invalid(Reason("BadParent"))

(* spawn_validate_from_chain_state: the result for an outcome of            *)
(* find_assumed_validation_data other than Matches                          *)
no_match_result(outcome) ==
    IF outcome = "DoesNotMatch"
      THEN Invalid(Reason("BadParent"))
      ELSE ValidationFailed("Assumption Check: Bad request")

(* the Valid result kept whatever the runtime API answered *)
outputs_checked_any(vr, ans) ==
    IF ans.r = "Err"
      THEN ValidationFailed("Check Validation Outputs: Bad request")
      ELSE vr

(* spawn_validate_from_chain_state: the result for a Valid vr once          *)
(* CheckValidationOutputs is answered                                       *)
outputs_checked(vr, ans) ==
    IF ans.r = "Err"
      THEN ValidationFailed("Check Validation Outputs: Bad request")
    ELSE IF ans.val[1]
      THEN vr
    ELSE Invalid(Reason("InvalidOutputs"))

(* check_assumption_validation_data: the PersistedValidationData answer     *)
(* arrives; find_assumed_validation_data goes on to the next assumption on  *)
(* DoesNotMatch.  A reply channel dropped without an answer is an error of  *)
(* runtime_api_request, which `?` carries out of run.                       *)
PersistedValidationDataAnswer ==
    /\ status = "Running"
    /\ pc = "data"
    /\ \E ans \in OptionAnswers(PersistedValidationDatas) :
         LET d == req[1].descriptor
             outcome == data_outcome(d, ans)
         IN  /\ answers' = Append(answers, ans)
             /\ IF ans.r = "Canceled"
                  THEN /\ Fail
                       /\ UNCHANGED <<assumption, validation_data, sent>>
                ELSE IF outcome = "Matches"
                  THEN /\ validation_data' = ans.val
                       /\ sent' = Append(sent, ValidationCodeRequest(d, ASSUMPTIONS[assumption]))
                       /\ Suspend("code")
                       /\ UNCHANGED assumption
                ELSE IF outcome = "DoesNotMatch" /\ assumption < Len(ASSUMPTIONS)
                  THEN /\ assumption' = assumption + 1
                       /\ sent' = Append(sent, PersistedValidationDataRequest(d, ASSUMPTIONS[assumption + 1]))
                       /\ Suspend("data")
                       /\ UNCHANGED validation_data
                ELSE /\ Deliver(no_match_result(outcome), "ValidateFromChainState")
                     /\ UNCHANGED <<assumption, validation_data, sent>>
    /\ UNCHANGED <<inbox, req, validation_code, calls, host_result, validation_result>>

(* check_assumption_validation_data: the ValidationCode answer arrives; on  *)
(* Matches spawn_validate_from_chain_state calls                            *)
(* validate_candidate_exhaustive                                            *)
ValidationCodeAnswer ==
    /\ status = "Running"
    /\ pc = "code"
    /\ \E ans \in OptionAnswers(ValidationCodes), send_ok \in BOOLEAN :
         LET d == req[1].descriptor
             s == exhaustive_start(validation_data[1], ans.val[1], d, req[1].pov, send_ok)
         IN  /\ answers' = Append(answers, ans)
             /\ IF ans.r = "Canceled"
                  THEN /\ Fail
                       /\ UNCHANGED <<validation_code, sent, calls, host_result, validation_result>>
                ELSE IF bad_request(ans)
                  THEN /\ Deliver(no_match_result("BadRequest"), "ValidateFromChainState")
                       /\ UNCHANGED <<validation_code, sent, calls, host_result, validation_result>>
                ELSE /\ validation_code' = ans.val
                     /\ calls' = s.calls
                     /\ host_result' = s.host_result
                     /\ validation_result' = s.validation_result
                     /\ IF s.validation_result = None
                          THEN /\ Suspend("host")
                               /\ UNCHANGED sent
                          ELSE chain_state_after_exhaustive(s.validation_result[1], d, sent)
    /\ UNCHANGED <<inbox, req, assumption, validation_data>>

(* a Valid result is checked with CheckValidationOutputs for both kinds     *)
(* of request                                                               *)
HostAnswer_checks_outputs_always ==
    /\ status = "Running"
    /\ pc = "host"
    /\ \E r \in HostAnswers :
         LET d == req[1].descriptor
             vr == exhaustive_after_execution(r, d, validation_data[1])
         IN  /\ host_result' = Some(r)
             /\ validation_result' = Some(vr)
             /\ chain_state_after_exhaustive(vr, d, sent)
    /\ UNCHANGED <<inbox, req, assumption, validation_data, validation_code, answers, calls>>

(* the backend is called again when it returned an error *)
HostAnswer_retries_on_error ==
    /\ status = "Running"
    /\ pc = "host"
    /\ \E r \in HostAnswers :
         LET d == req[1].descriptor
             vr == exhaustive_after_execution(r, d, validation_data[1])
         IN  IF ~r.ok
               THEN /\ calls' = Append(calls, calls[1])
                    /\ Suspend("host")
                    /\ UNCHANGED <<host_result, validation_result, sent>>
               ELSE /\ host_result' = Some(r)
                    /\ validation_result' = Some(vr)
                    /\ calls' = calls
                    /\ IF req[1].kind = "ValidateFromExhaustive"
                         THEN /\ Deliver(vr, "ValidateFromExhaustive")
                              /\ UNCHANGED sent
                         ELSE chain_state_after_exhaustive(vr, d, sent)
    /\ UNCHANGED <<inbox, req, assumption, validation_data, validation_code, answers>>

(* validate_candidate_exhaustive: the backend's validate_candidate returns  *)
HostAnswer ==
    /\ status = "Running"
    /\ pc = "host"
    /\ \E r \in HostAnswers :
         LET d == req[1].descriptor
             vr == exhaustive_after_execution(r, d, validation_data[1])
         IN  /\ host_result' = Some(r)
             /\ validation_result' = Some(vr)
             /\ IF req[1].kind = "ValidateFromExhaustive"
                  THEN /\ Deliver(vr, "ValidateFromExhaustive")
                       /\ UNCHANGED sent
                  ELSE chain_state_after_exhaustive(vr, d, sent)
    /\ UNCHANGED <<inbox, req, assumption, validation_data, validation_code, answers, calls>>

(* spawn_validate_from_chain_state: the CheckValidationOutputs answer       *)
CheckValidationOutputsAnswer ==
    /\ status = "Running"
    /\ pc = "outputs"
    /\ \E ans \in BoolAnswers :
         /\ answers' = Append(answers, ans)
         /\ IF ans.r = "Canceled"
              THEN Fail
              ELSE Deliver(outputs_checked(validation_result[1], ans), "ValidateFromChainState")
    /\ UNCHANGED <<inbox, req, assumption, validation_data, validation_code, sent, calls, host_result, validation_result>>

(* run, arm Ok(x): response_sender.send(x).  The requester may have       *)
(* dropped the receiving end; only the ValidateFromExhaustive arm logs      *)
(* that.  The request's values go out of scope and the loop iterates.       *)
Reply ==
    /\ status = "Running"
    /\ pc = "reply"
    /\ \E open \in BOOLEAN :
         /\ reply' = IF open THEN Some(result[1].tag) ELSE None
         /\ warned' = (~open /\ req[1].kind = "ValidateFromExhaustive")
    /\ pc' = "recv"
    /\ req' = None
    /\ assumption' = 0
    /\ validation_data' = None
    /\ validation_code' = None
    /\ sent' = <<>>
    /\ answers' = <<>>
    /\ calls' = <<>>
    /\ host_result' = None
    /\ validation_result' = None
    /\ result' = None
    /\ UNCHANGED <<inbox, status>>

Next ==
    \/ Send
    \/ RecvSignal
    \/ RecvConclude
    \/ RecvError
    \/ ValidateFromExhaustive
    \/ ValidateFromChainState
    \/ PersistedValidationDataAnswer
    \/ ValidationCodeAnswer
    \/ HostAnswer
    \/ CheckValidationOutputsAnswer
    \/ Reply

Spec == Init /\ [][Next]_vars

----------------------------------------------------------------------------
(* The subsystem in an environment that keeps it alive: the inbound stream  *)
(* does not fail, the overseer sends no Conclude, and the runtime API and   *)
(* the backend answer every query (an error is an answer, a reply channel   *)
(* dropped without one is not).                                             *)
SendNoConclude == \E m \in (Signals \ {"Conclude"}) \cup Requests : Post(m)

PersistedValidationDataAnswered == PersistedValidationDataAnswer /\ status' = "Running"
ValidationCodeAnswered == ValidationCodeAnswer /\ status' = "Running"
CheckValidationOutputsAnswered == CheckValidationOutputsAnswer /\ status' = "Running"

NextAnswered ==
    \/ SendNoConclude
    \/ RecvSignal
    \/ ValidateFromExhaustive
    \/ ValidateFromChainState
    \/ PersistedValidationDataAnswered
    \/ ValidationCodeAnswered
    \/ HostAnswer
    \/ CheckValidationOutputsAnswered
    \/ Reply

(* Every query is answered in the end, and the executor runs the loop task  *)
(* once the future it awaits is ready: response_sender.send does not wait.  *)
Fairness ==
    /\ WF_vars(PersistedValidationDataAnswered)
    /\ WF_vars(ValidationCodeAnswered)
    /\ WF_vars(HostAnswer)
    /\ WF_vars(CheckValidationOutputsAnswered)
    /\ WF_vars(Reply)

LiveSpec == Init /\ [][NextAnswered]_vars /\ Fairness

----------------------------------------------------------------------------
(* Properties *)

(* validate_candidate_exhaustive has been entered for the request at hand:  *)
(* its four inputs are the request's descriptor and PoV and the data and    *)
(* code supplied by the requester or resolved from the chain state          *)
Entered == req # None /\ validation_data # None /\ validation_code # None
TheDescriptor == req[1].descriptor
ThePoV == req[1].pov
TheData == validation_data[1]
TheCode == validation_code[1]
Returned_ == validation_result # None
TheVerdict == validation_result[1]
BasicChecks == perform_basic_checks(TheDescriptor, TheData.max_pov_size, ThePoV, TheCode)
BasicReasons == {"ParamsTooLarge", "PoVHashMismatch", "CodeHashMismatch", "BadSignature"}

(* C1: a Valid verdict, of validate_candidate_exhaustive or sent to the     *)
(* requester, is produced only if the basic checks passed, the code and     *)
(* the block data decompressed, the backend returned Ok(res) and            *)
(* hash(res.head_data) = descriptor.para_head.                              *)
C1_ValidOnlyIfAllChecksPassed ==
    ( \/ (Returned_ /\ TheVerdict.tag = "Valid")
      \/ (result # None /\ result[1].tag = "Valid") )
    => /\ Entered
       /\ BasicChecks.ok
       /\ decompress(TheCode, VALIDATION_CODE_BOMB_LIMIT).ok
       /\ decompress(ThePoV.block_data, POV_BOMB_LIMIT).ok
       /\ Len(calls) = 1
       /\ host_result # None
       /\ host_result[1].ok
       /\ HashHead(host_result[1].val[1].head_data) = TheDescriptor.para_head

C1_Witness ==
    /\ pc = "reply"
    /\ req[1].kind = "ValidateFromChainState"
    /\ result[1].tag = "Valid"

(* C2 as stated: for both request kinds, the data of a Valid result         *)
(* hashes to descriptor.persisted_validation_data_hash.                     *)
C2_ValidDataHashMatches ==
    (pc = "reply" /\ result[1].tag = "Valid")
    => HashData(result[1].data[1]) = TheDescriptor.persisted_validation_data_hash

(* C2 amended: for a ValidateFromChainState request, the data of a Valid    *)
(* result, of validate_candidate_exhaustive or sent to the requester,       *)
(* hashes to descriptor.persisted_validation_data_hash; for a               *)
(* ValidateFromExhaustive request it is the data the requester supplied.    *)
C2_ValidDataIsResolvedOrSupplied ==
    /\ (Returned_ /\ TheVerdict.tag = "Valid")
       => /\ TheVerdict.data = validation_data
          /\ req[1].kind = "ValidateFromChainState"
             => HashData(TheVerdict.data[1]) = TheDescriptor.persisted_validation_data_hash
          /\ req[1].kind = "ValidateFromExhaustive"
             => TheVerdict.data = req[1].persisted_validation_data
    /\ (pc = "reply" /\ result[1].tag = "Valid") => result = validation_result

C2_Witness ==
    /\ pc = "reply"
    /\ req[1].kind = "ValidateFromChainState"
    /\ result[1].tag = "Valid"
    /\ assumption = 2

(* C3 as stated: while the host has not answered the execution submitted    *)
(* for a request, the loop can receive a validation request that waits in   *)
(* the inbound channel.                                                     *)
C3_DispatchWhileExecuting ==
    (pc = "host" /\ inbox # <<>> /\ Head(inbox) \in Requests)
    => ENABLED (ValidateFromExhaustive \/ ValidateFromChainState)

(* C4: if perform_basic_checks returns Err(r) on the inputs of              *)
(* validate_candidate_exhaustive, it returns Invalid(r) and the backend is  *)
(* never called.                                                            *)
C4_BasicCheckPriority ==
    (Entered /\ ~BasicChecks.ok)
    => /\ validation_result = Some(Invalid(BasicChecks.val[1]))
       /\ calls = <<>>
       /\ host_result = None
       /\ pc = "reply"
       /\ result = validation_result

C4_Witness ==
    /\ Entered
    /\ ~BasicChecks.ok
    /\ ~decompress(TheCode, VALIDATION_CODE_BOMB_LIMIT).ok
    /\ pc = "reply"

(* C5: perform_basic_checks returns the reason of the first failing check   *)
(* in the order size, PoV hash, code hash, signature, and Ok exactly when   *)
(* none fails; validate_candidate_exhaustive returns that reason.           *)
C5_BasicChecksOrder ==
    Entered =>
      LET size_bad == encoded_size(ThePoV) > TheData.max_pov_size
          pov_bad == HashPoV(ThePoV) # TheDescriptor.pov_hash
          code_bad == HashCode(TheCode) # TheDescriptor.validation_code_hash
          sig_bad == ~check_collator_signature(TheDescriptor)
          expected ==
              IF size_bad THEN <<ParamsTooLarge(encoded_size(ThePoV))>>
              ELSE IF pov_bad THEN <<Reason("PoVHashMismatch")>>
              ELSE IF code_bad THEN <<Reason("CodeHashMismatch")>>
              ELSE IF sig_bad THEN <<Reason("BadSignature")>>
              ELSE <<>>
      IN  /\ BasicChecks.ok <=> ~(size_bad \/ pov_bad \/ code_bad \/ sig_bad)
          /\ ~BasicChecks.ok => BasicChecks.val = expected
          /\ expected # <<>> => validation_result = Some(Invalid(expected[1]))
          /\ (expected = <<>> /\ Returned_) => TheVerdict.reason.r \notin BasicReasons

C5_Witness ==
    /\ Entered
    /\ encoded_size(ThePoV) <= TheData.max_pov_size
    /\ HashPoV(ThePoV) # TheDescriptor.pov_hash
    /\ HashCode(TheCode) # TheDescriptor.validation_code_hash
    /\ ~check_collator_signature(TheDescriptor)
    /\ validation_result = Some(Invalid(Reason("PoVHashMismatch")))

(* C6 as stated, for compressed code: for any validation code whose        *)
(* decompressed length exceeds the code bomb limit,                         *)
(* validate_candidate_exhaustive returns Invalid(CodeDecompressionFailure)  *)
(* and the backend is not called.                                           *)
C6_CodeBombIsDecompressionFailure ==
    (Entered /\ TheCode.magic /\ TheCode.payload > VALIDATION_CODE_BOMB_LIMIT)
    => /\ validation_result = Some(Invalid(Reason("CodeDecompressionFailure")))
       /\ calls = <<>>

(* C6 amended: for any compressed validation code whose decompressed        *)
(* length exceeds the code bomb limit the backend is not called, and        *)
(* validate_candidate_exhaustive returns Invalid(CodeDecompressionFailure)  *)
(* if perform_basic_checks returned Ok, and Invalid(r) if it returned       *)
(* Err(r).                                                                  *)
C6_CompressedCodeBombAfterBasicChecks ==
    (Entered /\ TheCode.magic /\ TheCode.payload > VALIDATION_CODE_BOMB_LIMIT)
    => /\ calls = <<>>
       /\ host_result = None
       /\ validation_result =
            Some(Invalid(IF BasicChecks.ok
                           THEN Reason("CodeDecompressionFailure")
                           ELSE BasicChecks.val[1]))
       /\ result = validation_result

C6_Witness ==
    /\ Entered
    /\ TheCode.magic
    /\ TheCode.payload > VALIDATION_CODE_BOMB_LIMIT
    /\ BasicChecks.ok
    /\ pc = "reply"

(* C7 as stated, for a compressed PoV: for any PoV whose decompressed       *)
(* block data length exceeds the PoV bomb limit,                            *)
(* validate_candidate_exhaustive returns Invalid(PoVDecompressionFailure)   *)
(* and the backend is not called.                                           *)
C7_PoVBombIsDecompressionFailure ==
    (Entered /\ ThePoV.block_data.magic /\ ThePoV.block_data.payload > POV_BOMB_LIMIT)
    => /\ validation_result = Some(Invalid(Reason("PoVDecompressionFailure")))
       /\ calls = <<>>

(* C7 amended: for any compressed PoV whose decompressed block data length  *)
(* exceeds the PoV bomb limit the backend is not called, and                *)
(* validate_candidate_exhaustive returns Invalid(PoVDecompressionFailure)   *)
(* if perform_basic_checks returned Ok and the code decompressed;           *)
(* otherwise it returns Invalid(r) of the basic checks, or                  *)
(* Invalid(CodeDecompressionFailure) if those passed.                       *)
C7_CompressedPoVBombAfterCodeChecks ==
    (Entered /\ ThePoV.block_data.magic /\ ThePoV.block_data.payload > POV_BOMB_LIMIT)
    => /\ calls = <<>>
       /\ host_result = None
       /\ validation_result =
            Some(Invalid(IF ~BasicChecks.ok
                           THEN BasicChecks.val[1]
                         ELSE IF TheCode.magic /\ TheCode.payload > VALIDATION_CODE_BOMB_LIMIT
                           THEN Reason("CodeDecompressionFailure")
                         ELSE Reason("PoVDecompressionFailure")))
       /\ result = validation_result

C7_Witness ==
    /\ Entered
    /\ ThePoV.block_data.magic
    /\ ThePoV.block_data.payload > POV_BOMB_LIMIT
    /\ BasicChecks.ok
    /\ validation_result = Some(Invalid(Reason("PoVDecompressionFailure")))
    /\ req[1].kind = "ValidateFromChainState"

(* C8: when the backend returns an error, HardTimeout gives                 *)
(* Invalid(Timeout), WorkerReportedError(msg) gives                         *)
(* Invalid(ExecutionError(msg)) and InternalError(msg) gives                *)
(* ValidationFailed(msg), each with the same msg; that result is the one    *)
(* sent to the requester.                                                   *)
C8_HostErrorMapping ==
    (host_result # None /\ ~host_result[1].ok)
    => LET e == host_result[1].val[1]
       IN  /\ Len(calls) = 1
           /\ Returned_
           /\ e.e = "HardTimeout" => TheVerdict = Invalid(Reason("Timeout"))
           /\ e.e = "WorkerReportedError" => TheVerdict = Invalid(ExecutionError(e.msg))
           /\ e.e = "InternalError" => TheVerdict = ValidationFailed(e.msg)
           /\ e.e = "HardTimeout" => TheVerdict.tag # "ValidationFailed"
           /\ e.e = "InternalError" => TheVerdict.tag # "Invalid"
           /\ pc = "reply"
           /\ result = validation_result

C8_Witness ==
    /\ host_result = Some(Err([e |-> "WorkerReportedError", msg |-> "m2"]))
    /\ pc = "reply"
    /\ result = Some(Invalid(ExecutionError("m2")))

(* C9 as stated: when the backend returns AmbigiousWorkerDeath,             *)
(* validate_candidate_exhaustive returns                                    *)
(* Invalid(ExecutionError("ambiguous worker death")).                       *)
C9_AmbiguousWorkerDeathMessage ==
    (host_result # None /\ ~host_result[1].ok /\ host_result[1].val[1].e = "AmbigiousWorkerDeath")
    => validation_result = Some(Invalid(ExecutionError("ambiguous worker death")))

(* C10: when the backend returns Ok(res), validate_candidate_exhaustive     *)
(* returns Invalid(ParaHeadHashMismatch) if hash(res.head_data) differs     *)
(* from descriptor.para_head, and otherwise Valid(outputs, data) where      *)
(* every field of outputs is the field of res and data is the persisted     *)
(* validation data given to validate_candidate_exhaustive.                  *)
C10_HostOkMapping ==
    (host_result # None /\ host_result[1].ok)
    => LET res == host_result[1].val[1]
       IN  /\ Returned_
           /\ Len(calls) = 1
           /\ HashHead(res.head_data) # TheDescriptor.para_head
              => TheVerdict = Invalid(Reason("ParaHeadHashMismatch"))
           /\ HashHead(res.head_data) = TheDescriptor.para_head
              => /\ TheVerdict.tag = "Valid"
                 /\ TheVerdict.outputs[1].head_data = res.head_data
                 /\ TheVerdict.outputs[1].upward_messages = res.upward_messages
                 /\ TheVerdict.outputs[1].horizontal_messages = res.horizontal_messages
                 /\ TheVerdict.outputs[1].new_validation_code = res.new_validation_code
                 /\ TheVerdict.outputs[1].processed_downward_messages = res.processed_downward_messages
                 /\ TheVerdict.outputs[1].hrmp_watermark = res.hrmp_watermark
                 /\ TheVerdict.data = validation_data
                 /\ req[1].kind = "ValidateFromExhaustive"
                    => TheVerdict.data = req[1].persisted_validation_data

C10_Witness ==
    /\ host_result # None
    /\ host_result[1].ok
    /\ host_result[1].val[1].new_validation_code = Some(1)
    /\ req[1].kind = "ValidateFromExhaustive"
    /\ pc = "reply"
    /\ result[1].tag = "Valid"

----------------------------------------------------------------------------
(* The request at hand came as ValidateFromChainState / ValidateFromExhaustive *)
FromChainState == req # None /\ req[1].kind = "ValidateFromChainState"
FromExhaustive == req # None /\ req[1].kind = "ValidateFromExhaustive"
LastAnswer == answers[Len(answers)]
LastSent == sent[Len(sent)]

(* C11: on the chain-state path, once validate_candidate_exhaustive has     *)
(* returned Valid, CheckValidationOutputs was asked with the outputs of     *)
(* that result, and the result handed to the requester is that same Valid   *)
(* exactly when the runtime API answered true; it is                        *)
(* Invalid(InvalidOutputs) when it answered false and ValidationFailed      *)
(* when it answered with an error.                                          *)
C11_OutputsCheckGatesValid ==
    (pc = "reply" /\ FromChainState /\ Returned_ /\ TheVerdict.tag = "Valid")
    => /\ Len(sent) = Len(answers)
       /\ LastSent = CheckValidationOutputsRequest(TheDescriptor, TheVerdict.outputs[1])
       /\ (result[1] = TheVerdict) <=> (LastAnswer = ApiOk(Some(TRUE)))
       /\ (LastAnswer = ApiOk(Some(FALSE))) => (result[1] = Invalid(Reason("InvalidOutputs")))
       /\ (LastAnswer = ApiErr) => (result[1].tag = "ValidationFailed")

C11_Witness ==
    /\ pc = "reply"
    /\ FromChainState
    /\ Returned_
    /\ TheVerdict.tag = "Valid"
    /\ LastAnswer = ApiOk(Some(FALSE))
    /\ result[1] = Invalid(Reason("InvalidOutputs"))

(* the i-th answer carries persisted validation data whose hash is not the  *)
(* descriptor's persisted_validation_data_hash                              *)
Mismatch(i) ==
    /\ answers[i].r = "Ok"
    /\ answers[i].val # None
    /\ ~hash_matches(TheDescriptor, answers[i].val[1])

BothProbes == <<PersistedValidationDataRequest(TheDescriptor, "Included"), PersistedValidationDataRequest(TheDescriptor, "TimedOut")>>

(* C12: when the runtime API answered persisted validation data for the     *)
(* first two queries of a chain-state request and neither hashes to the     *)
(* descriptor's persisted_validation_data_hash, the result is               *)
(* Invalid(BadParent), the messages sent are exactly the two               *)
(* PersistedValidationData queries, for Included and then for TimedOut,     *)
(* and the backend was not called; and Invalid(BadParent) is the result     *)
(* only in that case.                                                       *)
C12_BadParentAfterBothAssumptions ==
    /\ (FromChainState /\ Len(answers) >= 2 /\ Mismatch(1) /\ Mismatch(2))
       => /\ pc = "reply"
          /\ result = Some(Invalid(Reason("BadParent")))
          /\ sent = BothProbes
          /\ Len(answers) = 2
          /\ validation_code = None
          /\ calls = <<>>
          /\ host_result = None
    /\ (FromChainState /\ result = Some(Invalid(Reason("BadParent"))))
       => /\ sent = BothProbes
          /\ Len(answers) = 2
          /\ Mismatch(1)
          /\ Mismatch(2)

C12_Witness ==
    /\ pc = "reply"
    /\ FromChainState
    /\ result = Some(Invalid(Reason("BadParent")))
    /\ Mismatch(1)
    /\ Mismatch(2)
    /\ calls = <<>>

(* the i-th answer is an error of the runtime API or says there is no data *)
BadAnswer(i) == answers[i].r # "Canceled" /\ bad_request(answers[i])

AssumptionQueries == {"PersistedValidationData", "ValidationCode"}

(* C13: as soon as a PersistedValidationData or ValidationCode query of a   *)
(* chain-state request is answered with an error or with no data, the       *)
(* result is ValidationFailed("Assumption Check: Bad request"): no answer   *)
(* before it was of that kind, no further message goes to the runtime API   *)
(* (the assumptions not yet probed stay unprobed) and the backend is not    *)
(* called.                                                                  *)
C13_FirstBadRequestWins ==
    (FromChainState /\ answers # <<>> /\ BadAnswer(Len(answers)) /\ sent[Len(answers)].request \in AssumptionQueries)
    => /\ pc = "reply"
       /\ result = Some(ValidationFailed("Assumption Check: Bad request"))
       /\ Len(sent) = Len(answers)
       /\ \A i \in 1 .. (Len(answers) - 1) : ~BadAnswer(i)
       /\ calls = <<>>
       /\ host_result = None
       /\ validation_result = None

C13_Witness ==
    /\ pc = "reply"
    /\ FromChainState
    /\ answers = <<ApiOk(None)>>
    /\ sent = <<PersistedValidationDataRequest(TheDescriptor, "Included")>>
    /\ result = Some(ValidationFailed("Assumption Check: Bad request"))

(* C14: when the resolver of a chain-state request has reached              *)
(* Matches(data, code), data is the persisted validation data the runtime   *)
(* API answered for an assumption A of Included, TimedOut and hashes to     *)
(* the descriptor's persisted_validation_data_hash, code is what it         *)
(* answered to the ValidationCode query for the descriptor's para_id, the   *)
(* same A and the descriptor's relay_parent, and A is TimedOut only if      *)
(* the data answered for Included did not match.                            *)
C14_MatchesSameAssumption ==
    (FromChainState /\ validation_code # None)
    => LET A == ASSUMPTIONS[assumption]
       IN  /\ assumption \in 1 .. 2
           /\ A \in {"Included", "TimedOut"}
           /\ sent[assumption] = PersistedValidationDataRequest(TheDescriptor, A)
           /\ answers[assumption] = ApiOk(validation_data)
           /\ hash_matches(TheDescriptor, TheData)
           /\ sent[assumption + 1].request = "ValidationCode"
           /\ sent[assumption + 1].relay_parent = TheDescriptor.relay_parent
           /\ sent[assumption + 1].para_id = TheDescriptor.para_id
           /\ sent[assumption + 1].assumption = A
           /\ answers[assumption + 1] = ApiOk(validation_code)
           /\ (A = "TimedOut") => (sent[1].assumption = "Included" /\ Mismatch(1))
           /\ (~Mismatch(1)) => (A = "Included")

C14_Witness ==
    /\ FromChainState
    /\ validation_code # None
    /\ ASSUMPTIONS[assumption] = "TimedOut"
    /\ Mismatch(1)
    /\ answers[2] = ApiOk(validation_data)

(* find_assumed_validation_data returned BadRequest for the request at hand *)
ResolverBadRequest ==
    /\ FromChainState
    /\ \E i \in 1 .. Len(answers) : BadAnswer(i) /\ sent[i].request \in AssumptionQueries

(* C15: a chain-state request whose resolver returned BadRequest gets a     *)
(* ValidationFailed result, never an Invalid one, and the backend is not    *)
(* called for it.                                                           *)
C15_BadRequestIsInternalFailure ==
    ResolverBadRequest
    => /\ pc = "reply"
       /\ result # None
       /\ result[1].tag = "ValidationFailed"
       /\ result[1].tag # "Invalid"
       /\ calls = <<>>
       /\ host_result = None

C15_Witness ==
    /\ pc = "reply"
    /\ ResolverBadRequest
    /\ Len(answers) = 2
    /\ sent[2].request = "ValidationCode"
    /\ answers[2] = ApiErr
    /\ result[1].tag = "ValidationFailed"

(* the loop task is inside the handling of a request *)
Serving == pc \in {"data", "code", "host", "outputs", "reply"}

(* C16 as stated: the handling of a dequeued request ends only with its     *)
(* one result (Valid, Invalid or ValidationFailed) handed to                *)
(* response_sender.send, and a result reaches a reply channel only then.    *)
C16_ExactlyOneVerdict ==
    [][ /\ (Serving /\ ~Serving')
           => /\ pc = "reply"
              /\ result # None
              /\ result[1].tag \in {"Valid", "Invalid", "ValidationFailed"}
        /\ (reply' # None /\ reply' # reply) => (pc = "reply" /\ pc' = "recv")
      ]_vars

(* C17 as stated: run returns an error only from ctx.recv(), that is only   *)
(* while it waits for the next inbound message; nothing that happens        *)
(* while a request is handled makes it return.                              *)
C17_OnlyInboundFailureStopsLoop ==
    [][ (status = "Running" /\ status' = "Failed") => (pc = "recv" /\ answers' = answers) ]_vars

(* C20 as stated: whenever response_sender.send finds the reply channel     *)
(* closed, for either kind of request, the warning is logged.               *)
C20_ClosedReplyChannelIsLogged ==
    [][ (pc = "reply" /\ pc' = "recv" /\ reply' = None) => warned' ]_vars

(* C19: when the running loop dequeues Conclude it stops with Ok(()), no    *)
(* request being in hand; from then on no message is dequeued, no message   *)
(* goes to the runtime API or to the backend and no result is sent: only    *)
(* the inbound channel may still grow.                                      *)
C19_ConcludeStopsLoop ==
    [][ /\ (status = "Running" /\ pc = "recv" /\ inbox # <<>> /\ Head(inbox) = "Conclude" /\ inbox' = Tail(inbox))
           => (status' = "Concluded" /\ pc' = "exit" /\ req' = None /\ result' = None)
        /\ (status = "Concluded")
           => /\ status' = "Concluded"
              /\ Len(inbox') >= Len(inbox)
              /\ (inbox # <<>>) => (Head(inbox') = Head(inbox))
              /\ UNCHANGED <<pc, req, assumption, validation_data, validation_code, sent, answers, calls, host_result, validation_result, result, reply, warned>>
      ]_vars

C19_Witness ==
    /\ status = "Concluded"
    /\ pc = "exit"
    /\ inbox # <<>>
    /\ Head(inbox) \in Requests

(* C18: in an environment where the inbound stream does not fail, no        *)
(* Conclude arrives and the runtime API and the backend answer every        *)
(* query, every request dequeued leads to its result being in hand for      *)
(* response_sender.send, and the send follows, after which the loop is      *)
(* back at ctx.recv().                                                      *)
C18_RequestEventuallyAnswered ==
    /\ (req # None) ~> (pc = "reply" /\ result # None)
    /\ (pc = "reply") ~> (pc = "recv" /\ req = None)

C18_Witness ==
    /\ pc = "reply"
    /\ FromChainState
    /\ Len(answers) = 4
    /\ result # None

----------------------------------------------------------------------------
(* The three async functions read as functions of their inputs and of what  *)
(* the runtime API and the backend answered: None while an answer is        *)
(* still missing, Some(result) once the function has returned Ok(result).   *)

(* validate_candidate_exhaustive; host is what validate_candidate returned  *)
validate_candidate_exhaustive(persisted_validation_data, validation_code_, descriptor, pov, host) ==
    LET b == exhaustive_before_execution(persisted_validation_data, validation_code_, descriptor, pov)
    IN  IF b.returned THEN b.result
        ELSE IF host = None THEN None
        ELSE Some(exhaustive_after_execution(host[1], descriptor, persisted_validation_data))

Answered(ans, i) == Len(ans) >= i /\ ans[i].r # "Canceled"

(* find_assumed_validation_data; ans are the runtime API's answers in the   *)
(* order of the queries, i the index of the assumption probed next          *)
RECURSIVE find_assumed_validation_data(_, _, _)
find_assumed_validation_data(descriptor, ans, i) ==
    IF i > Len(ASSUMPTIONS) THEN [outcome |-> "DoesNotMatch", at |-> 0]
    ELSE IF ~Answered(ans, i) THEN [outcome |-> "Pending", at |-> 0]
    ELSE IF data_outcome(descriptor, ans[i]) = "DoesNotMatch" THEN find_assumed_validation_data(descriptor, ans, i + 1)
    ELSE IF data_outcome(descriptor, ans[i]) = "BadRequest" THEN [outcome |-> "BadRequest", at |-> 0]
    ELSE IF ~Answered(ans, i + 1) THEN [outcome |-> "Pending", at |-> 0]
    ELSE IF bad_request(ans[i + 1]) THEN [outcome |-> "BadRequest", at |-> 0]
    ELSE [outcome |-> "Matches", at |-> i]

(* spawn_validate_from_chain_state *)
spawn_validate_from_chain_state(descriptor, pov, ans, host) ==
    LET found == find_assumed_validation_data(descriptor, ans, 1)
        i == found.at
        vr == validate_candidate_exhaustive(ans[i].val[1], ans[i + 1].val[1], descriptor, pov, host)
    IN  IF found.outcome = "Pending" THEN None
        ELSE IF found.outcome # "Matches" THEN Some(no_match_result(found.outcome))
        ELSE IF vr = None THEN None
        ELSE IF vr[1].tag # "Valid" THEN vr
        ELSE IF ~Answered(ans, i + 2) THEN None
        ELSE Some(outputs_checked(vr[1], ans[i + 2]))

Match(i) ==
    /\ Len(answers) >= i
    /\ answers[i].r = "Ok"
    /\ answers[i].val # None
    /\ hash_matches(TheDescriptor, answers[i].val[1])

(* C22: for a chain-state request the messages to the runtime API go out    *)
(* one at a time, each after the answer to the one before: first            *)
(* PersistedValidationData for Included; PersistedValidationData for        *)
(* TimedOut only as the second message, after the Included data was         *)
(* answered and did not match; ValidationCode for an assumption only right  *)
(* after the data answered for that assumption matched; all of them for     *)
(* descriptor.relay_parent and descriptor.para_id.                          *)
C22_ProbesSequentialAndOrdered ==
    FromChainState
    => /\ sent # <<>>
       /\ sent[1] = PersistedValidationDataRequest(TheDescriptor, "Included")
       /\ Len(answers) <= Len(sent)
       /\ Len(sent) <= Len(answers) + 1
       /\ (Len(sent) = Len(answers) + 1) <=> (pc \in {"data", "code", "outputs"})
       /\ \A i \in 1 .. Len(sent) :
            /\ sent[i].relay_parent = TheDescriptor.relay_parent
            /\ sent[i].para_id = TheDescriptor.para_id
            /\ (i > 1 /\ sent[i].request = "PersistedValidationData")
               => /\ i = 2
                  /\ sent[i].assumption = "TimedOut"
                  /\ Mismatch(1)
            /\ (sent[i].request = "ValidationCode")
               => /\ i > 1
                  /\ sent[i - 1] = PersistedValidationDataRequest(TheDescriptor, sent[i].assumption)
                  /\ Match(i - 1)

C22_Witness ==
    /\ FromChainState
    /\ pc = "code"
    /\ Len(sent) = 3
    /\ sent[3] = ValidationCodeRequest(TheDescriptor, "TimedOut")
    /\ Mismatch(1)
    /\ Match(2)

(* C23: for a chain-state request, once validate_candidate_exhaustive has   *)
(* returned a result that is not Valid, that very result is the one in      *)
(* hand for response_sender.send and no CheckValidationOutputs message      *)
(* was sent to the runtime API.                                             *)
C23_NonValidReturnedUnchanged ==
    (FromChainState /\ Returned_ /\ TheVerdict.tag # "Valid")
    => /\ pc = "reply"
       /\ result = validation_result
       /\ result[1].tag \in {"Invalid", "ValidationFailed"}
       /\ \A i \in 1 .. Len(sent) : sent[i].request # "CheckValidationOutputs"
       /\ Len(sent) = Len(answers)

C23_Witness ==
    /\ FromChainState
    /\ pc = "reply"
    /\ host_result = Some(Err([e |-> "HardTimeout", msg |-> ""]))
    /\ result = Some(Invalid(Reason("Timeout")))
    /\ LastSent.request = "ValidationCode"

(* C24: for every request the backend's validate_candidate is called at     *)
(* most once: once, with nothing called before, when                        *)
(* validate_candidate_exhaustive was entered and the basic checks and both  *)
(* decompressions succeeded, and not at all otherwise; whatever the         *)
(* backend returned, no second call follows.                                *)
C24_HostInvokedAtMostOnce ==
    /\ Len(calls) <= 1
    /\ Entered
       => ((Len(calls) = 1) <=> /\ BasicChecks.ok
                                /\ decompress(TheCode, VALIDATION_CODE_BOMB_LIMIT).ok
                                /\ decompress(ThePoV.block_data, POV_BOMB_LIMIT).ok)
    /\ (~Entered) => (calls = <<>> /\ host_result = None)
    /\ (host_result # None) => (Len(calls) = 1)

C24_Witness ==
    /\ FromExhaustive
    /\ pc = "reply"
    /\ Len(calls) = 1
    /\ host_result # None
    /\ ~host_result[1].ok
    /\ host_result[1].val[1].e = "WorkerReportedError"

(* C25: whenever the backend is called, the descriptor's pov_hash and       *)
(* validation_code_hash are the hashes of the PoV and of the code as they   *)
(* were supplied, compressed or not, while the backend gets the code        *)
(* decompressed and ValidationParams made of the decompressed block data    *)
(* and of parent_head, relay_parent_number and relay_parent_storage_root    *)
(* of the persisted validation data.                                        *)
C25_HashesOverSuppliedBlobs ==
    (Entered /\ Len(calls) = 1)
    => /\ HashPoV(ThePoV) = TheDescriptor.pov_hash
       /\ HashCode(TheCode) = TheDescriptor.validation_code_hash
       /\ ~calls[1].raw_validation_code.magic
       /\ calls[1].raw_validation_code.wire = TheCode.payload
       /\ calls[1].raw_validation_code.payload = TheCode.payload
       /\ ~calls[1].params.block_data.magic
       /\ calls[1].params.block_data.wire = ThePoV.block_data.payload
       /\ calls[1].params.block_data.payload = ThePoV.block_data.payload
       /\ calls[1].params.parent_head = TheData.parent_head
       /\ calls[1].params.relay_parent_number = TheData.relay_parent_number
       /\ calls[1].params.relay_parent_storage_root = TheData.relay_parent_storage_root
       /\ DOMAIN calls[1].params = {"parent_head", "block_data", "relay_parent_number", "relay_parent_storage_root"}

(* compressed code under the bomb limit, with a compressed PoV whose hash   *)
(* differs from the hash of its content, gives Valid                        *)
C25_Witness ==
    /\ pc = "reply"
    /\ Entered
    /\ result[1].tag = "Valid"
    /\ TheCode.magic
    /\ TheCode.payload <= VALIDATION_CODE_BOMB_LIMIT
    /\ HashCode(TheCode) = TheDescriptor.validation_code_hash
    /\ ThePoV.block_data.magic
    /\ HashPoV([block_data |-> calls[1].params.block_data]) # TheDescriptor.pov_hash

(* C26: the step that dequeues ActiveLeaves or BlockFinalized leaves the    *)
(* loop Running at ctx.recv() and changes nothing but the inbound channel:  *)
(* no message to the runtime API or the backend, no result sent, and the    *)
(* state from which later requests are handled is the one before.           *)
C26_SignalsIgnored ==
    [][ (status = "Running" /\ pc = "recv" /\ inbox # <<>> /\ Head(inbox) \in {"ActiveLeaves", "BlockFinalized"} /\ inbox' = Tail(inbox))
        => /\ status' = "Running"
           /\ pc' = "recv"
           /\ UNCHANGED <<req, assumption, validation_data, validation_code, sent, answers, calls, host_result, validation_result, result, reply, warned>>
      ]_vars

C26_Witness ==
    /\ status = "Running"
    /\ pc = "recv"
    /\ inbox # <<>>
    /\ Head(inbox) = "BlockFinalized"
    /\ reply = Some("Valid")

(* the backend could not send to the validation host, or the host dropped   *)
(* the result channel without answering                                     *)
HostUnreachable == host_result = Some(CannotSend) \/ host_result = Some(Cancelled)

(* C27: when the backend could not send to the host, or the host dropped    *)
(* the result channel, the result in hand for the requester is              *)
(* ValidationFailed with the backend's message, not Invalid; run has not    *)
(* returned, and the send that takes the loop back to ctx.recv() is         *)
(* enabled.                                                                 *)
C27_HostUnreachableIsInternalFailure ==
    HostUnreachable
    => /\ status = "Running"
       /\ pc = "reply"
       /\ result = Some(ValidationFailed(host_result[1].val[1].msg))
       /\ result[1].tag # "Invalid"
       /\ Len(calls) = 1
       /\ ENABLED Reply

C27_Witness ==
    /\ FromChainState
    /\ host_result = Some(Cancelled)
    /\ result = Some(ValidationFailed("validation was cancelled"))
    /\ pc = "reply"

(* C28: while a ValidateFromExhaustive request is handled no message goes   *)
(* to the runtime API and none of its answers is awaited; the result of     *)
(* validate_candidate_exhaustive, Valid included, is the one in hand for    *)
(* response_sender.send.                                                    *)
C28_ExhaustiveAsksNoRuntimeApi ==
    FromExhaustive
    => /\ sent = <<>>
       /\ answers = <<>>
       /\ pc \notin {"data", "code", "outputs"}
       /\ assumption = 0
       /\ (pc = "reply") => (result = validation_result)
       /\ Returned_ => (pc = "reply" \/ status = "Failed")

C28_Witness ==
    /\ FromExhaustive
    /\ pc = "reply"
    /\ sent = <<>>
    /\ host_result # None
    /\ host_result[1].ok
    /\ result = validation_result
    /\ result[1].tag = "Valid"

(* runtime-API queries and backend calls not yet answered *)
Outstanding == (Len(sent) - Len(answers)) + (IF pc = "host" THEN 1 ELSE 0)

(* C29: a message is dequeued from the inbound channel only while no        *)
(* request is in hand, the result of the request before having been given   *)
(* to response_sender.send; at most one runtime-API query or backend call   *)
(* is unanswered at any moment; and the result sent is the result of the    *)
(* request dequeued last, so results go out in the order of the requests.   *)
C29_OneRequestAtATime ==
    [][ /\ (inbox # <<>> /\ inbox' = Tail(inbox))
           => /\ pc = "recv"
              /\ req = None
              /\ result = None
              /\ Outstanding = 0
        /\ Outstanding' \in {0, 1}
        /\ (Outstanding' = 1) => (req' # None /\ pc' \in {"data", "code", "host", "outputs"})
        /\ (pc = "reply" /\ pc' # "reply")
           => /\ pc' = "recv"
              /\ req # None
              /\ result # None
              /\ reply' \in {None, Some(result[1].tag)}
              /\ inbox' = inbox
      ]_vars

C29_Witness ==
    /\ pc = "host"
    /\ req # None
    /\ inbox # <<>>
    /\ Head(inbox) = "Conclude"

====
